---- MODULE Spec2Model ----
(***************************************************************************)
(* Model of the metadata extraction (getMetadata, filterArtists) of the   *)
(* background script and of the DOM Observer of soundcloud-dl.             *)
(*                                                                         *)
(* A string is a sequence of one-character strings.  A regular expression  *)
(* is a sequence of nodes, matched by a backtracking matcher that tries    *)
(* the alternatives in the order ECMAScript's RegExp does (greedy          *)
(* quantifiers first take as much as they can, alternations go left to     *)
(* right), so the captures are the ones RegExp.exec returns.               *)
(***************************************************************************)
EXTENDS Integers, Sequences, FiniteSets

\* ------------------------------------------------------------------------
\* Characters
\* ------------------------------------------------------------------------
LowerSeq ==
  <<"a","b","c","d","e","f","g","h","i","j","k","l","m",
    "n","o","p","q","r","s","t","u","v","w","x","y","z">>

UpperSeq ==
  <<"A","B","C","D","E","F","G","H","I","J","K","L","M",
    "N","O","P","Q","R","S","T","U","V","W","X","Y","Z">>

\* the "i" flag: two characters match when their upper-case forms are equal
Canonicalize ==
  [c \in {LowerSeq[k] : k \in 1..26} |->
     UpperSeq[CHOOSE k \in 1..26 : LowerSeq[k] = c]]

Canon(c) == IF c \in DOMAIN Canonicalize THEN Canonicalize[c] ELSE c

\* "." matches every character but a line terminator
LineTerminator == {"\n", "\r"}

\* \s and String.prototype.trim: white space and line terminators
WhiteSpace == {" ", "\t", "\n", "\r"}

\* ------------------------------------------------------------------------
\* Regular expression nodes
\* ------------------------------------------------------------------------
Lit(s)    == [t |-> "lit", s |-> s]
Ws        == [t |-> "ws"]
Dots(min) == [t |-> "dots", min |-> min]
Opt(r)    == [t |-> "opt", r |-> r]
Grp(k, r) == [t |-> "grp", k |-> k, r |-> r]
Alt(as)   == [t |-> "alt", as |-> as]
Eos       == [t |-> "eos"]
EndGrp(k, from) == [t |-> "endgrp", k |-> k, from |-> from]

NoMatch == [ok |-> FALSE]

\* number of characters "." can take from position i on
RECURSIVE DotRun(_, _)
DotRun(s, i) ==
  IF i > Len(s) \/ s[i] \in LineTerminator THEN 0 ELSE 1 + DotRun(s, i + 1)

LitAt(s, i, w) ==
  /\ i + Len(w) - 1 <= Len(s)
  /\ \A j \in 1..Len(w) : Canon(s[i + j - 1]) = Canon(w[j])

RECURSIVE Match(_, _, _, _)
RECURSIVE Repeat(_, _, _, _, _, _)
RECURSIVE TryAlt(_, _, _, _, _, _)

\* the nodes matched against s from position i on; caps are the captures so far
Match(nodes, s, i, caps) ==
  IF Len(nodes) = 0 THEN [ok |-> TRUE, end |-> i, caps |-> caps]
  ELSE
    LET n    == Head(nodes)
        rest == Tail(nodes)
    IN CASE n.t = "lit" ->
              IF LitAt(s, i, n.s) THEN Match(rest, s, i + Len(n.s), caps)
              ELSE NoMatch
         [] n.t = "ws" ->
              IF i <= Len(s) /\ s[i] \in WhiteSpace
              THEN Match(rest, s, i + 1, caps)
              ELSE NoMatch
         [] n.t = "dots" -> Repeat(rest, s, i, caps, DotRun(s, i), n.min)
         [] n.t = "opt" ->
              LET a == Match(n.r \o rest, s, i, caps)
              IN IF a.ok THEN a ELSE Match(rest, s, i, caps)
         [] n.t = "grp" ->
              Match(n.r \o <<EndGrp(n.k, i)>> \o rest, s, i, caps)
         [] n.t = "endgrp" ->
              Match(rest, s, i, [caps EXCEPT ![n.k] = SubSeq(s, n.from, i - 1)])
         [] n.t = "alt" -> TryAlt(n.as, 1, rest, s, i, caps)
         [] n.t = "eos" ->
              IF i = Len(s) + 1 THEN Match(rest, s, i, caps) ELSE NoMatch

\* greedy ".+" / ".*": the longest run first, then shorter ones
Repeat(rest, s, i, caps, n, min) ==
  IF n < min THEN NoMatch
  ELSE LET a == Match(rest, s, i + n, caps)
       IN IF a.ok THEN a ELSE Repeat(rest, s, i, caps, n - 1, min)

\* a|b|c: the first alternative with which the rest matches
TryAlt(as, k, rest, s, i, caps) ==
  IF k > Len(as) THEN NoMatch
  ELSE LET a == Match(as[k] \o rest, s, i, caps)
       IN IF a.ok THEN a ELSE TryAlt(as, k + 1, rest, s, i, caps)

RECURSIVE ExecFrom(_, _, _)
ExecFrom(re, s, i) ==
  IF i > Len(s) + 1 THEN NoMatch
  ELSE LET a == Match(re.nodes, s, i, [k \in 1..re.groups |-> <<>>])
       IN IF a.ok THEN [ok |-> TRUE, index |-> i, end |-> a.end, caps |-> a.caps]
          ELSE IF re.anchored THEN NoMatch
          ELSE ExecFrom(re, s, i + 1)

\* RegExp.prototype.exec / test: the leftmost match (a pattern that starts
\* with ^ matches at the start only); caps[k] is result[k], index..end-1
\* is result[0]
Exec(re, s) == ExecFrom(re, s, 1)

Test(re, s) == Exec(re, s).ok

\* ------------------------------------------------------------------------
\* String operations
\* ------------------------------------------------------------------------
\* String.prototype.indexOf, 1-based; 0 when sub does not occur in s
RECURSIVE IndexFrom(_, _, _)
IndexFrom(s, sub, i) ==
  IF i + Len(sub) - 1 > Len(s) THEN 0
  ELSE IF SubSeq(s, i, i + Len(sub) - 1) = sub THEN i
  ELSE IndexFrom(s, sub, i + 1)

IndexOf(s, sub) == IndexFrom(s, sub, 1)

Contains(s, sub) == IndexOf(s, sub) # 0

\* s.replace(sub, "") with a string pattern: the first occurrence only
ReplaceString(s, sub) ==
  LET i == IndexOf(s, sub)
  IN IF i = 0 THEN s
     ELSE SubSeq(s, 1, i - 1) \o SubSeq(s, i + Len(sub), Len(s))

\* s.replace(re, "") with a regular expression without the "g" flag
ReplaceRegex(s, re) ==
  LET r == Exec(re, s)
  IN IF r.ok THEN SubSeq(s, 1, r.index - 1) \o SubSeq(s, r.end, Len(s))
     ELSE s

RECURSIVE TrimStart(_)
TrimStart(s) ==
  IF Len(s) > 0 /\ Head(s) \in WhiteSpace THEN TrimStart(Tail(s)) ELSE s

RECURSIVE TrimEnd(_)
TrimEnd(s) ==
  IF Len(s) > 0 /\ s[Len(s)] \in WhiteSpace
  THEN TrimEnd(SubSeq(s, 1, Len(s) - 1)) ELSE s

Trim(s) == TrimEnd(TrimStart(s))

Range(q) == {q[k] : k \in 1..Len(q)}

\* [...new Set(q)]: a Set keeps the order of first insertion
RECURSIVE DistinctFrom(_, _, _)
DistinctFrom(q, k, acc) ==
  IF k > Len(q) THEN acc
  ELSE DistinctFrom(q, k + 1,
                    IF q[k] \in Range(acc) THEN acc ELSE Append(acc, q[k]))

\* variant: a name met again moves to the place of its last occurrence
RECURSIVE DistinctLastFrom(_, _, _)
DistinctLastFrom(q, k, acc) ==
  IF k > Len(q) THEN acc
  ELSE DistinctLastFrom(q, k + 1,
         Append(SelectSeq(acc, LAMBDA a : a # q[k]), q[k]))

DistinctKeepLast(q) == DistinctLastFrom(q, 1, <<>>)

Distinct(q) == DistinctFrom(q, 1, <<>>)

\* ------------------------------------------------------------------------
\* The words of the patterns
\* ------------------------------------------------------------------------
W_featuring == <<"f","e","a","t","u","r","i","n","g">>
W_feat == <<"f","e","a","t">>
W_ft == <<"f","t">>
W_amp == <<"&">>
W_wSlash == <<"w","/">>
W_with == <<"w","i","t","h">>
W_comma == <<",">>
W_X == <<"X">>
W_spXsp == <<" ","X"," ">>
W_Prod == <<"P","r","o","d">>
W_by == <<"b","y">>
W_Remix == <<"R","e","m","i","x">>
W_Flip == <<"F","l","i","p">>
W_Bootleg == <<"B","o","o","t","l","e","g">>
W_Mashup == <<"M","a","s","h","u","p">>
W_Edit == <<"E","d","i","t">>
W_FreeDownload == <<"F","r","e","e"," ","D","o","w","n","l","o","a","d">>
W_VideoInDescription == <<"V","i","d","e","o"," ","i","n"," ","D","e","s","c","r","i","p","t","i","o","n">>
W_dash == <<" ","-"," ">>


\* ------------------------------------------------------------------------
\* The patterns
\* ------------------------------------------------------------------------
\* /^(.+) (featuring|feat|ft|&|w\/|with|,|X)\.? (.+)$/i
artistRegex ==
  [anchored |-> TRUE, groups |-> 3,
   nodes |-> << Grp(1, <<Dots(1)>>), Lit(<<" ">>),
                Grp(2, <<Alt(<< <<Lit(W_featuring)>>, <<Lit(W_feat)>>,
                                <<Lit(W_ft)>>, <<Lit(W_amp)>>,
                                <<Lit(W_wSlash)>>, <<Lit(W_with)>>,
                                <<Lit(W_comma)>>, <<Lit(W_X)>> >>)>>),
                Opt(<<Lit(<<".">>)>>), Lit(<<" ">>),
                Grp(3, <<Dots(1)>>), Eos >>]

\* /\s?\[?\(?(Free Download|Video in Description)\)?\]?.*$/i
sanitizeRegex ==
  [anchored |-> FALSE, groups |-> 1,
   nodes |-> << Opt(<<Ws>>), Opt(<<Lit(<<"[">>)>>), Opt(<<Lit(<<"(">>)>>),
                Grp(1, <<Alt(<< <<Lit(W_FreeDownload)>>,
                                <<Lit(W_VideoInDescription)>> >>)>>),
                Opt(<<Lit(<<")">>)>>), Opt(<<Lit(<<"]">>)>>),
                Dots(0), Eos >>]

\* /^(.+) - (.+)$/i
titleRegex ==
  [anchored |-> TRUE, groups |-> 2,
   nodes |-> << Grp(1, <<Dots(1)>>), Lit(W_dash), Grp(2, <<Dots(1)>>), Eos >>]

\* Prod\.?\s?(by)?\s?(.+)
ProdCredit ==
  << Lit(W_Prod), Opt(<<Lit(<<".">>)>>), Opt(<<Ws>>),
     Opt(<<Grp(2, <<Lit(W_by)>>)>>), Opt(<<Ws>>), Grp(3, <<Dots(1)>>) >>

\* /^.+(\s?\(Prod\.?\s?(by)?\s?(.+)\))$/i, /^.+(\s?\[Prod ... \])$/i,
\* /^.+(\s?Prod\.?\s?(by)?\s?(.+))$/i
producerRegexes ==
  << [anchored |-> TRUE, groups |-> 3,
      nodes |-> << Dots(1),
                   Grp(1, <<Opt(<<Ws>>), Lit(<<"(">>)>> \o ProdCredit
                            \o <<Lit(<<")">>)>>),
                   Eos >>],
     [anchored |-> TRUE, groups |-> 3,
      nodes |-> << Dots(1),
                   Grp(1, <<Opt(<<Ws>>), Lit(<<"[">>)>> \o ProdCredit
                            \o <<Lit(<<"]">>)>>),
                   Eos >>],
     [anchored |-> TRUE, groups |-> 3,
      nodes |-> << Dots(1), Grp(1, <<Opt(<<Ws>>)>> \o ProdCredit), Eos >>] >>

\* (featuring|feat|ft|w\/| X )
FeatureWord ==
  Alt(<< <<Lit(W_featuring)>>, <<Lit(W_feat)>>, <<Lit(W_ft)>>,
         <<Lit(W_wSlash)>>, <<Lit(W_spXsp)>> >>)

\* /^.+(featuring|feat|ft|w\/| X ).+$/i
featureTest ==
  [anchored |-> TRUE, groups |-> 1,
   nodes |-> << Dots(1), Grp(1, <<FeatureWord>>), Dots(1), Eos >>]

\* (featuring|feat|ft|w\/| X )\.?\s?(.+)
FeatCredit ==
  << Grp(2, <<FeatureWord>>), Opt(<<Lit(<<".">>)>>), Opt(<<Ws>>),
     Grp(3, <<Dots(1)>>) >>

\* /^.+(\s?\((featuring|feat|ft|w\/| X )\.?\s?(.+)\))$/i,
\* /^.+(\s?\[( ... )\.?\s?(.+)\])$/i, /^.+(\s?( ... )\.?\s?(.+))$/i
featureRegexes ==
  << [anchored |-> TRUE, groups |-> 3,
      nodes |-> << Dots(1),
                   Grp(1, <<Opt(<<Ws>>), Lit(<<"(">>)>> \o FeatCredit
                            \o <<Lit(<<")">>)>>),
                   Eos >>],
     [anchored |-> TRUE, groups |-> 3,
      nodes |-> << Dots(1),
                   Grp(1, <<Opt(<<Ws>>), Lit(<<"[">>)>> \o FeatCredit
                            \o <<Lit(<<"]">>)>>),
                   Eos >>],
     [anchored |-> TRUE, groups |-> 3,
      nodes |-> << Dots(1), Grp(1, <<Opt(<<Ws>>)>> \o FeatCredit), Eos >>] >>

\* (Remix|Flip|Bootleg|Mashup|Edit)
RemixWord ==
  Alt(<< <<Lit(W_Remix)>>, <<Lit(W_Flip)>>, <<Lit(W_Bootleg)>>,
         <<Lit(W_Mashup)>>, <<Lit(W_Edit)>> >>)

\* /^.+(Remix|Flip|Bootleg|Mashup|Edit).*$/i
remixTest ==
  [anchored |-> TRUE, groups |-> 1,
   nodes |-> << Dots(1), Grp(1, <<RemixWord>>), Dots(0), Eos >>]

\* /^.+\s?\((.+)\s(Remix|Flip|Bootleg|Mashup|Edit)\)$/i and the same with [ ]
remixRegexes ==
  << [anchored |-> TRUE, groups |-> 2,
      nodes |-> << Dots(1), Opt(<<Ws>>), Lit(<<"(">>), Grp(1, <<Dots(1)>>), Ws,
                   Grp(2, <<RemixWord>>), Lit(<<")">>), Eos >>],
     [anchored |-> TRUE, groups |-> 2,
      nodes |-> << Dots(1), Opt(<<Ws>>), Lit(<<"[">>), Grp(1, <<Dots(1)>>), Ws,
                   Grp(2, <<RemixWord>>), Lit(<<"]">>), Eos >>] >>

\* ------------------------------------------------------------------------
\* filterArtists
\* ------------------------------------------------------------------------
\* artistRegex.exec(matchedArtists)
artistResult(m) == Exec(artistRegex, m)

\* the while loop: push result[1] and go on with result[3], or push the
\* rest and stop
RECURSIVE filterArtists(_)
filterArtists(m) ==
  LET r == artistResult(m)
  IN IF r.ok THEN <<r.caps[1]>> \o filterArtists(r.caps[3]) ELSE <<m>>

\* ------------------------------------------------------------------------
\* getMetadata, stage by stage
\* ------------------------------------------------------------------------
\* title.replace(/\s?\[?\(?(Free Download|Video in Description)\)?\]?.*$/i, "")
sanitize(t) == ReplaceRegex(t, sanitizeRegex)

\* variant: without the else branch that pushes the uploader
leadingArtistsNoUploader(res, user) ==
  IF res.ok THEN filterArtists(res.caps[1]) ELSE <<>>

\* the artists after the leading-artist split: the segmented leading part,
\* or the uploader when the title has no " - "
leadingArtists(res, user) ==
  IF res.ok THEN filterArtists(res.caps[1]) ELSE <<user>>

\* producerRegexes.forEach: every pattern is tried in turn on the title the
\* patterns before it have left; st is [title, removed]
RECURSIVE producerLoop(_, _)
producerLoop(k, st) ==
  IF k > Len(producerRegexes) THEN st
  ELSE LET r == Exec(producerRegexes[k], st.title)
       IN producerLoop(k + 1,
            IF r.ok
            THEN [title   |-> ReplaceString(st.title, r.caps[1]),
                  removed |-> Append(st.removed,
                                [stage |-> "producer", fragment |-> r.caps[1]])]
            ELSE st)

\* featureRegexes.forEach; st is [title, artists, removed]
RECURSIVE featureLoop(_, _)
featureLoop(k, st) ==
  IF k > Len(featureRegexes) THEN st
  ELSE LET r == Exec(featureRegexes[k], st.title)
       IN featureLoop(k + 1,
            IF r.ok
            THEN [title   |-> ReplaceString(st.title, r.caps[1]),
                  artists |-> st.artists \o filterArtists(r.caps[3]),
                  removed |-> Append(st.removed,
                                [stage |-> "feature", fragment |-> r.caps[1]])]
            ELSE st)

\* remixRegexes.forEach: the title is left as it is
RECURSIVE remixLoop(_, _, _)
remixLoop(k, t, as) ==
  IF k > Len(remixRegexes) THEN as
  ELSE LET r == Exec(remixRegexes[k], t)
       IN remixLoop(k + 1, t,
            IF r.ok THEN as \o filterArtists(r.caps[1]) ELSE as)

\* variant: the names that are empty after trimming are filtered out
trimArtistsDropEmpty(as) ==
  SelectSeq([k \in 1..Len(as) |-> Trim(as[k])], LAMBDA a : a # <<>>)

\* artists.map((artist) => artist.trim())
trimArtists(as) == [k \in 1..Len(as) |-> Trim(as[k])]

\* ------------------------------------------------------------------------
\* Inputs
\* ------------------------------------------------------------------------
\* the longest title is made of MaxPieces fragments of one family
MaxPieces == 4

\* the longest list of added nodes of one mutation record
MaxAdded == 2

\* the events registered at most
MaxEvents == 2

\* the concatenations of at most n fragments of the set V
RECURSIVE Concat(_, _)
Concat(V, n) ==
  IF n = 0 THEN {<<>>}
  ELSE LET prev == Concat(V, n - 1)
       IN prev \cup {p \o v : p \in prev, v \in V}

T_A  == <<"A">>
T_B  == <<"B">>
T_x  == <<"x">>
T_sp == <<" ">>
T_nl == <<"\n">>
T_and     == <<" ","&"," ">>
T_dashA   == <<" ","-"," ","A">>
T_andA    == <<" ","&"," ","A">>
T_featDot == <<" ","f","e","a","t","."," ">>
T_prod    == <<" ","P","r","o","d"," ","a">>
T_prodBy  == <<" ","(","P","r","o","d","."," ","b","y"," ","a",")">>
T_ft      == <<" ","f","t","."," ","B">>
T_featBC  == <<" ","(","f","e","a","t","."," ","B"," ","&"," ","C",")">>
T_remixE  == <<" ","(","E"," ","R","e","m","i","x",")">>
T_flipEA  == <<" ","[","E"," ","&"," ","A"," ","F","l","i","p","]">>
T_freeDl  == <<"[","F","r","e","e"," ","D","o","w","n","l","o","a","d","]">>

Families ==
  { {T_A, T_dashA, T_andA},
    {T_A, T_sp, W_dash},
    {T_x, T_prod, T_prodBy},
    {T_x, T_ft, T_featBC},
    {T_x, T_remixE, T_flipEA},
    {T_x, W_FreeDownload, T_nl},
    {T_x, T_sp, T_freeDl} }

\* "Artist - Track Title", "A & B feat. C - Song (Prod. by D)",
\* "Song (E Remix)", "Totally Plain Title", "Song [Free Download]"
Examples ==
  { <<"A","r","t","i","s","t"," ","-"," ","T","r","a","c","k"," ",
      "T","i","t","l","e">>,
    <<"A"," ","&"," ","B"," ","f","e","a","t","."," ","C"," ","-"," ",
      "S","o","n","g"," ","(","P","r","o","d","."," ","b","y"," ","D",")">>,
    <<"S","o","n","g"," ","(","E"," ","R","e","m","i","x",")">>,
    <<"T","o","t","a","l","l","y"," ","P","l","a","i","n"," ",
      "T","i","t","l","e">>,
    <<"S","o","n","g"," ","[","F","r","e","e"," ","D","o","w","n","l","o","a","d","]">> }

Titles == Examples \cup UNION {Concat(V, MaxPieces) : V \in Families}

Usernames == {<<>>, <<"u">>}

ArtistStrings ==
  Concat({T_A, T_B, T_and, T_featDot}, MaxPieces)
    \cup {<<"A"," ","&"," ","B"," ","f","e","a","t","."," ","C">>}

\* ------------------------------------------------------------------------
\* State
\* ------------------------------------------------------------------------
VARIABLES
  pc,           \* getMetadata: the statement to run next
  arg,          \* getMetadata: the title the call was made with
  username,     \* getMetadata: parameter
  title,        \* getMetadata: the working title (the parameter is reassigned)
  artists,      \* getMetadata: local
  titleResult,  \* getMetadata: local, the result of titleRegex.exec
  removed,      \* history: the fragments handed to title.replace(.., "")
  assembled,    \* history: artists as trimmed, before the Set removes duplicates
  fpc,              \* filterArtists: position
  farg,             \* filterArtists: the string the call was made with
  matchedArtists,   \* filterArtists: parameter, reassigned by the loop
  filteredArtists,  \* filterArtists: local
  events,        \* Observer.events
  unqiueNodeId,  \* Observer.unqiueNodeId
  id,            \* node._id of every node, Undefined when not set
  calls,         \* history: the callbacks made, in order
  mutation,      \* history: the record the last step handled, None after
                 \* any other step
  observing      \* the MutationObserver is connected (start .. stop)

metaVars   == <<pc, arg, username, title, artists, titleResult, removed, assembled>>
filterVars == <<fpc, farg, matchedArtists, filteredArtists>>
obsVars    == <<events, unqiueNodeId, id, calls, mutation, observing>>
vars       == <<metaVars, filterVars, obsVars>>

MetaIdle ==
  /\ pc = "idle" /\ arg = <<>> /\ username = <<>> /\ title = <<>>
  /\ artists = <<>> /\ titleResult = NoMatch /\ removed = <<>>
  /\ assembled = <<>>

FilterIdle ==
  /\ fpc = "idle" /\ farg = <<>> /\ matchedArtists = <<>>
  /\ filteredArtists = <<>>

ObserverIdle ==
  /\ events = <<>> /\ unqiueNodeId = 0 /\ id = <<>> /\ calls = <<>>
  /\ mutation = <<>> /\ observing = FALSE

\* ------------------------------------------------------------------------
\* getMetadata(title, username)
\* ------------------------------------------------------------------------
Init ==
  /\ arg \in Titles
  /\ username \in Usernames
  /\ title = arg
  /\ pc = "sanitize"
  /\ artists = <<>>
  /\ titleResult = NoMatch
  /\ removed = <<>>
  /\ assembled = <<>>
  /\ FilterIdle
  /\ ObserverIdle

Sanitize ==
  /\ pc = "sanitize"
  /\ title' = sanitize(title)
  /\ pc' = "split"
  /\ UNCHANGED <<arg, username, artists, titleResult, removed, assembled>>

SplitTitle ==
  /\ pc = "split"
  /\ LET res == Exec(titleRegex, title)
     IN /\ titleResult' = res
        /\ title' = IF res.ok THEN res.caps[2] ELSE title
        /\ artists' = leadingArtists(res, username)
  /\ pc' = "producers"
  /\ UNCHANGED <<arg, username, removed, assembled>>

Producers ==
  /\ pc = "producers"
  /\ LET st == producerLoop(1, [title |-> title, removed |-> removed])
     IN /\ title' = st.title
        /\ removed' = st.removed
  /\ pc' = "features"
  /\ UNCHANGED <<arg, username, artists, titleResult, assembled>>

Features ==
  /\ pc = "features"
  /\ LET st0 == [title |-> title, artists |-> artists, removed |-> removed]
         st  == IF Test(featureTest, title) THEN featureLoop(1, st0) ELSE st0
     IN /\ title' = st.title
        /\ artists' = st.artists
        /\ removed' = st.removed
  /\ pc' = "remix"
  /\ UNCHANGED <<arg, username, titleResult, assembled>>

Remix ==
  /\ pc = "remix"
  /\ artists' = IF Test(remixTest, title)
                THEN remixLoop(1, title, artists) ELSE artists
  /\ pc' = "trim"
  /\ UNCHANGED <<arg, username, title, titleResult, removed, assembled>>

\* title.trim(), artists.concat(producers) with producers = [], artists trimmed
TrimAll ==
  /\ pc = "trim"
  /\ title' = Trim(title)
  /\ artists' = trimArtists(artists \o <<>>)
  /\ assembled' = artists'
  /\ pc' = "distinct"
  /\ UNCHANGED <<arg, username, titleResult, removed>>

\* artists = [...new Set(artists)]; return {title, artists}
DistinctArtists ==
  /\ pc = "distinct"
  /\ artists' = Distinct(artists)
  /\ pc' = "done"
  /\ UNCHANGED <<arg, username, title, titleResult, removed, assembled>>

Next ==
  \/ (Sanitize /\ UNCHANGED <<filterVars, obsVars>>)
  \/ (SplitTitle /\ UNCHANGED <<filterVars, obsVars>>)
  \/ (Producers /\ UNCHANGED <<filterVars, obsVars>>)
  \/ (Features /\ UNCHANGED <<filterVars, obsVars>>)
  \/ (Remix /\ UNCHANGED <<filterVars, obsVars>>)
  \/ (TrimAll /\ UNCHANGED <<filterVars, obsVars>>)
  \/ (DistinctArtists /\ UNCHANGED <<filterVars, obsVars>>)

Spec == Init /\ [][Next]_vars

\* ------------------------------------------------------------------------
\* filterArtists(matchedArtists), one iteration of the loop at a time
\* ------------------------------------------------------------------------
InitFilter ==
  /\ farg \in ArtistStrings
  /\ matchedArtists = farg
  /\ filteredArtists = <<>>
  /\ fpc = "loop"
  /\ MetaIdle
  /\ ObserverIdle

\* the pattern matches: push result[1], go on with result[3]
FilterPush ==
  /\ fpc = "loop"
  /\ artistResult(matchedArtists).ok
  /\ filteredArtists' = Append(filteredArtists, artistResult(matchedArtists).caps[1])
  /\ matchedArtists' = artistResult(matchedArtists).caps[3]
  /\ UNCHANGED <<fpc, farg>>

\* no match: push what is left and return
FilterLast ==
  /\ fpc = "loop"
  /\ ~artistResult(matchedArtists).ok
  /\ filteredArtists' = Append(filteredArtists, matchedArtists)
  /\ fpc' = "done"
  /\ UNCHANGED <<farg, matchedArtists>>

NextFilter ==
  \/ (FilterPush /\ UNCHANGED <<metaVars, obsVars>>)
  \/ (FilterLast /\ UNCHANGED <<metaVars, obsVars>>)

SpecFilter == InitFilter /\ [][NextFilter]_vars

\* ------------------------------------------------------------------------
\* Observer
\* ------------------------------------------------------------------------
\* the document: node 1 holds 2, 3 and 4, node 2 holds 5; 3 is a text node
Node == 1..5

childNodes == << <<2, 3, 4>>, <<5>>, <<>>, <<>>, <<>> >>

IsHTMLElement(n) == n # 3

Selectors == {"a", "b"}

\* element.matches(selectors)
ElementMatches(n, sel) ==
  \/ sel = "a" /\ n \in {2, 4, 5}
  \/ sel = "b" /\ n \in {1, 4}

\* element instanceof HTMLElement && element.matches(selectors)
matchesSelectors(n, sel) == IsHTMLElement(n) /\ ElementMatches(n, sel)

\* node._id === undefined
Undefined == 0

None == <<>>

\* the elements of the set S of numbers, in increasing order
RECURSIVE Sorted(_)
Sorted(S) ==
  IF S = {} THEN <<>>
  ELSE LET m == CHOOSE x \in S : \A y \in S : x <= y
       IN <<m>> \o Sorted(S \ {m})

\* the records the MutationObserver delivers: an attribute change of an
\* element, or children of the target added (in document order) or removed
MutationRecords ==
  {[type |-> "attributes", target |-> n, addedNodes |-> <<>>] :
     n \in {m \in Node : IsHTMLElement(m)}}
  \cup UNION {
     {[type |-> "childList", target |-> n, addedNodes |-> Sorted(S)] :
        S \in {R \in SUBSET Range(childNodes[n]) : Cardinality(R) <= MaxAdded}} :
     n \in Node}

\* handleNodes(nodes, event, recursive) from nodes[i] on; k is the index of
\* the event, st is [id, unqiueNodeId, calls]
RECURSIVE handleNodes(_, _, _, _, _)
handleNodes(nodes, i, k, recursive, st) ==
  IF i > Len(nodes) THEN st
  ELSE
    LET node == nodes[i]
        hit  == matchesSelectors(node, events[k].selector)
    IN IF hit /\ st.id[node] # Undefined THEN st
       ELSE
         LET st1 == IF hit
                    THEN [id |-> [st.id EXCEPT ![node] = st.unqiueNodeId + 1],
                          unqiueNodeId |-> st.unqiueNodeId + 1,
                          calls |-> Append(st.calls,
                                           [event |-> k, node |-> node])]
                    ELSE st
             st2 == IF recursive /\ Len(childNodes[node]) > 0
                    THEN handleNodes(childNodes[node], 1, k, TRUE, st1)
                    ELSE st1
         IN handleNodes(nodes, i + 1, k, recursive, st2)

\* handleMutation(mutation): the loop over this.events from events[k] on
RECURSIVE handleMutation(_, _, _)
handleMutation(m, k, st) ==
  IF k > Len(events) THEN st
  ELSE handleMutation(m, k + 1,
         IF Len(m.addedNodes) > 0
         THEN handleNodes(m.addedNodes, 1, k, TRUE, st)
         ELSE IF m.type = "attributes"
         THEN handleNodes(<<m.target>>, 1, k, FALSE, st)
         ELSE st)

InitObserver ==
  /\ events = <<>>
  /\ unqiueNodeId = 0
  /\ id = [n \in Node |-> Undefined]
  /\ calls = <<>>
  /\ mutation = None
  /\ observing = FALSE
  /\ MetaIdle
  /\ FilterIdle

Start ==
  /\ observing' = TRUE
  /\ mutation' = None
  /\ UNCHANGED <<events, unqiueNodeId, id, calls>>

Stop ==
  /\ observing' = FALSE
  /\ mutation' = None
  /\ UNCHANGED <<events, unqiueNodeId, id, calls>>

AddEvent ==
  /\ Len(events) < MaxEvents
  /\ \E sel \in Selectors : events' = Append(events, [selector |-> sel])
  /\ mutation' = None
  /\ UNCHANGED <<unqiueNodeId, id, calls, observing>>

\* the MutationObserver callback, for one record of the batch
HandleMutation ==
  /\ observing
  /\ \E m \in MutationRecords :
       LET st == handleMutation(m, 1, [id |-> id, unqiueNodeId |-> unqiueNodeId,
                                       calls |-> calls])
       IN /\ id' = st.id
          /\ unqiueNodeId' = st.unqiueNodeId
          /\ calls' = st.calls
          /\ mutation' = m
  /\ UNCHANGED <<events, observing>>

NextObserver ==
  \/ (Start /\ UNCHANGED <<metaVars, filterVars>>)
  \/ (Stop /\ UNCHANGED <<metaVars, filterVars>>)
  \/ (AddEvent /\ UNCHANGED <<metaVars, filterVars>>)
  \/ (HandleMutation /\ UNCHANGED <<metaVars, filterVars>>)

SpecObserver == InitObserver /\ [][NextObserver]_vars

\* ------------------------------------------------------------------------
\* Properties
\* ------------------------------------------------------------------------
SongERemix == <<"S","o","n","g"," ","(","E"," ","R","e","m","i","x",")">>

AndBFeatC == <<"A"," ","&"," ","B"," ","f","e","a","t","."," ","C">>

\* the position of the first occurrence of a in the sequence q, 0 if none
FirstIndex(q, a) ==
  IF a \in Range(q) THEN CHOOSE k \in 1..Len(q) :
                           q[k] = a /\ \A j \in 1..(k - 1) : q[j] # a
  ELSE 0

\* C1: the artist list getMetadata returns has at least one entry, for every
\* title and username.
C1_ArtistsNonEmpty == pc = "done" => Len(artists) >= 1

\* a call that found no split and no credit and returns one artist
C1_Witness ==
  /\ pc = "done" /\ ~titleResult.ok /\ removed = <<>>
  /\ Len(assembled) = 1 /\ Len(artists) = 1

\* C2: the returned list is the order-preserving deduplication of the trimmed
\* names: no name twice, the same names as assembled, and the names in the
\* order of their first occurrences.
C2_OrderPreservingDedup ==
  pc = "done" =>
    /\ \A i, j \in 1..Len(artists) : i # j => artists[i] # artists[j]
    /\ Range(artists) = Range(assembled)
    /\ \A i, j \in 1..Len(artists) :
         i < j => FirstIndex(assembled, artists[i]) < FirstIndex(assembled, artists[j])

\* a duplicate was dropped from between other names
C2_Witness ==
  /\ pc = "done" /\ Len(artists) >= 3 /\ Len(artists) < Len(assembled)
  /\ \E i, j \in 1..Len(assembled) :
       i + 1 < j /\ assembled[i] = assembled[j]

C4_NamesNonEmpty ==
  pc = "done" => \A k \in 1..Len(artists) : Trim(artists[k]) # <<>>

\* C5: the returned title contains none of the fragments a producer or
\* feature pattern matched and removed.
C5_FragmentsGone ==
  pc = "done" =>
    \A k \in 1..Len(removed) : ~Contains(title, removed[k].fragment)

\* C6: sanitizing the sanitized title again changes nothing.
C6_SanitizeIdempotent == pc = "split" => sanitize(title) = title

\* the title the splitter was given: titleRegex matches all of it
SplitInput == titleResult.caps[1] \o W_dash \o titleResult.caps[2]

\* C7: with two or more " - " and text before the first, the split is at the
\* first " - ".
C7_SplitAtFirstSeparator ==
  (pc = "producers" /\ titleResult.ok) =>
    LET first == IndexOf(SplitInput, W_dash)
    IN (first > 1 /\ IndexFrom(SplitInput, W_dash, first + Len(W_dash)) # 0) =>
         /\ titleResult.caps[1] = SubSeq(SplitInput, 1, first - 1)
         /\ title = SubSeq(SplitInput, first + Len(W_dash), Len(SplitInput))

\* C8: filterArtists splits at every delimited token: no returned name still
\* holds one, and "A & B feat. C" gives [A, B, C].
C8_SplitAtEveryToken ==
  fpc = "done" =>
    /\ \A k \in 1..Len(filteredArtists) : ~artistResult(filteredArtists[k]).ok
    /\ farg = AndBFeatC => filteredArtists = << <<"A">>, <<"B">>, <<"C">> >>

\* C9: first match wins: the producer stage and the feature stage each
\* strip at most one fragment from the title.
C9_FirstMatchWins ==
  \A stage \in {"producer", "feature"} :
    Cardinality({k \in 1..Len(removed) : removed[k].stage = stage}) <= 1

\* C10: after a record's added nodes were handled, every node of the list
\* that matches the selector of a registered event is marked, and its
\* callback was made exactly once.
C10_EveryAddedMatchHandled ==
  (mutation # None /\ Len(mutation.addedNodes) > 0) =>
    \A k \in 1..Len(events) : \A i \in 1..Len(mutation.addedNodes) :
      LET node == mutation.addedNodes[i]
      IN matchesSelectors(node, events[k].selector) =>
           /\ id[node] # Undefined
           /\ Cardinality({c \in 1..Len(calls) : calls[c].node = node}) = 1

====
